---- MODULE Spec2Model ----
(***************************************************************************)
(* A state-machine model of the SAC agent of tf2rl/algos/sac_old_v1.py.    *)
(*                                                                         *)
(* The agent is instantiated with state_shape = (1,), action_dim = 1 and   *)
(* critic_units = (), so a critic is exactly its linear output head over   *)
(* concat(states, actions): a kernel of two entries and a bias.            *)
(*                                                                         *)
(* Arithmetic is exact fixed point.  Network parameters are integers in    *)
(* units of 1/ParamOne, alpha in units of 1/AlphaOne, regression targets   *)
(* in units of 1/QUnit.  ParamOne is a power of the denominator of tau, so *)
(* that every soft update of a run divides exactly.  log_alpha is counted  *)
(* in units of lr_alpha and the model takes exp(lr_alpha) = 2.  An Adam    *)
(* step moves every variable by the learning rate against the sign of its  *)
(* gradient and advances the optimizer's iteration count.                  *)
(***************************************************************************)
EXTENDS Integers, Sequences, FiniteSets, TLC

\* Bounds of the model.
MaxTrain == 2       \* train calls per run
BatchSize == 2      \* transitions per batch
TauDen == 2         \* tau ranges over 1/TauDen .. TauDen/TauDen

RECURSIVE Pow(_, _)
Pow(b, n) == IF n = 0 THEN 1 ELSE b * Pow(b, n - 1)

ParamOne == Pow(TauDen, MaxTrain)     \* 1.0 as a network parameter
AlphaOne == Pow(2, MaxTrain)          \* 1.0 as an alpha
Lr == ParamOne                        \* one Adam step on a network parameter

\* discount of the Policy base class, as <<numerator, denominator>>
Discount == <<1, 2>>
QUnit == ParamOne * AlphaOne * Discount[2]   \* 1.0 as a regression target

Sign(x) == IF x > 0 THEN 1 ELSE IF x < 0 THEN -1 ELSE 0

RECURSIVE SumSeq(_)
SumSeq(q) == IF q = <<>> THEN 0 ELSE Head(q) + SumSeq(Tail(q))

Idx == 1..BatchSize
SeqsOf(S) == [Idx -> S]

\* tf.exp on log_alpha (counted in units of lr_alpha), in units of 1/AlphaOne
Exp(k) == Pow(2, k + MaxTrain)

----------------------------------------------------------------------------
\* Input domains.

\* what the Glorot initializer can draw for <<kernel_s, kernel_a, bias>>
InitKernels == {<<ParamOne, -ParamOne, 0>>, <<0, ParamOne, 0>>}
\* what the TruncatedNormal initializer can draw for the actor
InitActor == {<<0>>}
TauArgs == 1..TauDen
AlphaArgs == {1, AlphaOne}
ObsVals == {1}
ActVals == {1}
\* reward batches: all zero, or a different reward for every element
RewardArgs == {[i \in Idx |-> 0], [i \in Idx |-> i]}
\* done batches: no element terminal, the first only, all
DoneArgs == {[i \in Idx |-> 0], [i \in Idx |-> IF i = 1 THEN 1 ELSE 0],
             [i \in Idx |-> 1]}
Ranks == {1, 2, 3}
\* weights=None, or per-sample importance weights
WeightArgs == {<<>>} \cup {[i \in Idx |-> IF i = 1 THEN 2 ELSE 0]}
\* what one reparameterised draw of the squashed Gaussian can be: the action,
\* its log-probability, and their derivatives in the actor's parameter
ActorSamples == {[a |-> 1, logp |-> -2, da |-> 1, dlogp |-> -1],
                 [a |-> -1, logp |-> 2, da |-> 1, dlogp |-> 1]}
\* what one actor call can draw for a batch: the same draw for every element
ActorDraws == {[i \in Idx |-> x] : x \in ActorSamples}

----------------------------------------------------------------------------
VARIABLES
    pc,     \* "new" | "idle" | "train" | "done"
    self,   \* the agent's attributes
    call,   \* the running call: its arguments, locals and the agent at entry
    ret,    \* what the finished call returned or raised
    ctor,   \* the arguments the agent was constructed with
    nTrain  \* train calls started so far

vars == <<pc, self, call, ret, ctor, nTrain>>

NoCall == [method |-> "none"]
NoRet == [kind |-> "none"]

\* tf.keras.optimizers.Adam(...): a fresh optimizer has made no step
NewAdam == [iterations |-> 0]

\* optimizer.apply_gradients(zip(grad, var)) on one variable
AdamStep(var, grad, lr) == [j \in DOMAIN var |-> var[j] - lr * Sign(grad[j])]
AdamTick(opt) == [opt EXCEPT !.iterations = @ + 1]

\* update_target_variables(target_variables, source_variables, tau):
\* target <- tau * source + (1 - tau) * target, tau = taun / TauDen
UpdateTargetVariables(target, source, taun) ==
    [j \in DOMAIN target |->
        (taun * source[j] + (TauDen - taun) * target[j]) \div TauDen]

\* CriticQ.call: out_layer(concat(states, actions)), squeezed
CriticQ(w, s, a) == w[1] * s + w[2] * a + w[3]

Min(x, y) == IF x <= y THEN x ELSE y

----------------------------------------------------------------------------
\* Construction.

\* SAC._setup_actor
SetupActor(created) ==
    [actor |-> created.actor, actor_optimizer |-> NewAdam]

\* SAC._setup_critic_q: the four networks, the shared optimizer, and the
\* two tau = 1 calls of update_target_variables
SetupCriticQ(created) ==
    [qf1 |-> UpdateTargetVariables(created.qf1, created.qf1_target, TauDen),
     qf2 |-> UpdateTargetVariables(created.qf2, created.qf2_target, TauDen),
     qf1_target |-> created.qf1_target,
     qf2_target |-> created.qf2_target,
     qf_optimizer |-> NewAdam]

\* faulty variant: the temperature is made a variable whatever auto_alpha is
SetupAlphaAlwaysVariable(auto_alpha, alpha_arg) ==
    [log_alpha |-> <<0>>, alpha |-> Exp(0), target_alpha |-> <<-1>>,
     alpha_optimizer |-> <<NewAdam>>]

\* SAC.__init__, the hyper-parameters: absent attributes are empty sequences
SetupAlpha(auto_alpha, alpha_arg) ==
    IF auto_alpha
    THEN [log_alpha |-> <<0>>, alpha |-> Exp(0), target_alpha |-> <<-1>>,
          alpha_optimizer |-> <<NewAdam>>]
    ELSE [log_alpha |-> <<>>, alpha |-> alpha_arg, target_alpha |-> <<>>,
          alpha_optimizer |-> <<>>]

\* the attributes SAC.__init__ leaves on the agent
NewAgent(created, tau, auto_alpha, alpha_arg) ==
    LET a == SetupActor(created)
        q == SetupCriticQ(created)
        h == SetupAlpha(auto_alpha, alpha_arg)
    IN  [actor |-> a.actor, actor_optimizer |-> a.actor_optimizer,
         qf1 |-> q.qf1, qf2 |-> q.qf2,
         qf1_target |-> q.qf1_target, qf2_target |-> q.qf2_target,
         qf_optimizer |-> q.qf_optimizer,
         tau |-> tau, auto_alpha |-> auto_alpha,
         log_alpha |-> h.log_alpha, alpha |-> h.alpha,
         target_alpha |-> h.target_alpha,
         alpha_optimizer |-> h.alpha_optimizer,
         discount |-> Discount]

\* the names __init__ binds on self
Attributes(ag) == DOMAIN ag

Unbuilt == [built |-> FALSE]

Init ==
    /\ pc = "new"
    /\ self = Unbuilt
    /\ call = NoCall
    /\ ret = NoRet
    /\ ctor = [built |-> FALSE]
    /\ nTrain = 0

SACInit ==
    /\ pc = "new"
    /\ \E k1, k2, k1t, k2t \in InitKernels, ka \in InitActor,
          tau \in TauArgs, auto_alpha \in BOOLEAN, alpha_arg \in AlphaArgs :
          LET created == [qf1 |-> k1, qf2 |-> k2, qf1_target |-> k1t,
                          qf2_target |-> k2t, actor |-> ka]
          IN  /\ auto_alpha => alpha_arg = AlphaOne
              /\ self' = NewAgent(created, tau, auto_alpha, alpha_arg)
              /\ call' = [method |-> "__init__", created |-> created]
              /\ ctor' = [tau |-> tau, auto_alpha |-> auto_alpha,
                          alpha |-> alpha_arg]
    /\ ret' = [kind |-> "ok"]
    /\ pc' = "done"
    /\ UNCHANGED nTrain

\* the caller takes the result and is ready for the next call
Resume ==
    /\ pc = "done"
    /\ pc' = "idle"
    /\ call' = NoCall
    /\ ret' = NoRet
    /\ UNCHANGED <<self, ctor, nTrain>>

----------------------------------------------------------------------------
\* The actor (GaussianActor): actor(states, test) -> (actions, log_pis).

\* test=True: the mode of the distribution, a function of the parameters
ActorMode(w, s) == [a |-> Sign(w[1] * s + 1), logp |-> 0]

\* SAC.get_action
GetAction ==
    /\ pc = "idle"
    /\ \E isarray \in BOOLEAN, single \in BOOLEAN, test \in BOOLEAN,
          s \in ObsVals, drawn \in ActorSamples :
          LET out == IF test THEN ActorMode(self.actor, s) ELSE drawn
          IN  /\ call' = [method |-> "get_action", pre |-> self,
                          isarray |-> isarray, single |-> single, test |-> test]
              /\ ret' = IF ~isarray
                        THEN [kind |-> "AssertionError"]
                        ELSE [kind |-> "ok",
                              value |-> IF single
                                        THEN <<out.a, out.logp>>
                                        ELSE <<<<out.a>>, <<out.logp>>>>]
    /\ pc' = "done"
    /\ UNCHANGED <<self, ctor, nTrain>>

\* SAC.get_logp
GetLogp ==
    /\ pc = "idle"
    /\ \E isarray \in BOOLEAN, single \in BOOLEAN, s \in ObsVals,
          drawn \in ActorSamples :
          /\ call' = [method |-> "get_logp", pre |-> self,
                      isarray |-> isarray, single |-> single]
          /\ ret' = IF ~isarray
                    THEN [kind |-> "AssertionError"]
                    ELSE [kind |-> "ok",
                          value |-> IF single THEN <<drawn.logp>>
                                    ELSE <<<<drawn.logp>>>>]
    /\ pc' = "done"
    /\ UNCHANGED <<self, ctor, nTrain>>

----------------------------------------------------------------------------
\* The training step.

\* faulty variant: the mask is dones itself
NotDonesUnflipped(dones) == dones

\* not_dones = 1. - tf.cast(dones, tf.float32)
NotDones(dones) == [i \in Idx |-> 1 - dones[i]]

\* soft_next_q = min(qf1_target, qf2_target)(next_states, sample_next_actions)
\*               - alpha * next_logp, in units of 1/(ParamOne*AlphaOne)
SoftNextQ(ag, c) ==
    [i \in Idx |->
        LET next_q1_target ==
                CriticQ(ag.qf1_target, c.next_states[i], c.next_samp[i].a)
            next_q2_target ==
                CriticQ(ag.qf2_target, c.next_states[i], c.next_samp[i].a)
            next_q_min_target == Min(next_q1_target, next_q2_target)
        IN  next_q_min_target * AlphaOne
                - ag.alpha * c.next_samp[i].logp * ParamOne]

\* target_q = stop_gradient(rewards + not_dones * discount * soft_next_q),
\* in units of 1/QUnit
TargetQ(ag, c) ==
    LET not_dones == NotDones(c.dones)
        soft_next_q == SoftNextQ(ag, c)
    IN  [i \in Idx |->
            c.rewards[i] * QUnit + not_dones[i] * ag.discount[1] * soft_next_q[i]]

\* faulty variant: the residual is scaled by the importance weights
TdResidualWeighted(w, c, target_q) ==
    [i \in Idx |->
        c.weights[i] * (target_q[i]
            - CriticQ(w, c.states[i], c.actions[i]) * AlphaOne * Discount[2])]

\* target_q - qf(states, actions), in units of 1/QUnit
TdResidual(w, c, target_q) ==
    [i \in Idx |->
        target_q[i] - CriticQ(w, c.states[i], c.actions[i]) * AlphaOne * Discount[2]]

\* tf.reduce_mean((target_q - current_q) ** 2), times BatchSize * QUnit^2
TdLoss(w, c, target_q) ==
    LET e == TdResidual(w, c, target_q) IN SumSeq([i \in Idx |-> e[i] * e[i]])

\* tape.gradient(td_loss_q, w) up to the positive factor 2 / BatchSize
TdGrad(w, c, target_q) ==
    LET e == TdResidual(w, c, target_q)
        x(i) == <<c.states[i], c.actions[i], 1>>
    IN  [j \in DOMAIN w |-> - SumSeq([i \in Idx |-> e[i] * x(i)[j]])]

\* policy_loss = tf.reduce_mean(alpha * logp - current_min_q_policy),
\* times BatchSize * ParamOne * AlphaOne
PolicyLoss(ag, c) ==
    SumSeq([i \in Idx |->
        LET current_q1_policy == CriticQ(ag.qf1, c.states[i], c.samp[i].a)
            current_q2_policy == CriticQ(ag.qf2, c.states[i], c.samp[i].a)
        IN  ag.alpha * c.samp[i].logp * ParamOne
                - Min(current_q1_policy, current_q2_policy) * AlphaOne])

\* tape.gradient(policy_loss, actor.trainable_variables) up to the factor
\* 1 / BatchSize: the chain rule through the draw; tf.minimum passes the
\* gradient to its first argument on a tie
ActorGrad(ag, c) ==
    <<SumSeq([i \in Idx |->
        LET current_q1_policy == CriticQ(ag.qf1, c.states[i], c.samp[i].a)
            current_q2_policy == CriticQ(ag.qf2, c.states[i], c.samp[i].a)
            dq_da == IF current_q1_policy <= current_q2_policy
                     THEN ag.qf1[2] ELSE ag.qf2[2]
        IN  ag.alpha * c.samp[i].dlogp * ParamOne
                - dq_da * c.samp[i].da * AlphaOne])>>

\* alpha_loss = -mean(log_alpha * stop_gradient(logp + target_alpha)),
\* times BatchSize
AlphaLoss(ag, c) ==
    - SumSeq([i \in Idx |->
        ag.log_alpha[1] * (c.samp[i].logp + ag.target_alpha[1])])

\* tape.gradient(alpha_loss, [log_alpha]) up to the factor 1 / BatchSize
AlphaGrad(ag, c) ==
    <<- SumSeq([i \in Idx |-> c.samp[i].logp + ag.target_alpha[1]])>>

\* the block under tf.GradientTape: what the step computes before any update
TapeBlock(ag, c) ==
    LET target_q == TargetQ(ag, c)
        logp == [i \in Idx |-> c.samp[i].logp]
    IN  [target_q |-> target_q,
         current_q1 |-> [i \in Idx |-> CriticQ(ag.qf1, c.states[i], c.actions[i])],
         td_loss_q1 |-> TdLoss(ag.qf1, c, target_q),
         td_loss_q |-> TdLoss(ag.qf1, c, target_q) + TdLoss(ag.qf2, c, target_q),
         policy_loss |-> PolicyLoss(ag, c),
         alpha_loss |-> IF ag.auto_alpha THEN <<AlphaLoss(ag, c)>> ELSE <<>>,
         logp_sum |-> SumSeq(logp)]

\* faulty variant: only the rank of dones is asserted
ShapeAssertsDonesOnly(drank, rrank) == drank = 2

\* the assertions at the head of _train_body
ShapeAsserts(drank, rrank) == drank = 2 /\ rrank = 2

\* tf.squeeze(x, axis=1) needs an axis 1
SqueezeOk(drank, rrank) == drank >= 2 /\ rrank >= 2

\* faulty variant: a target critic among the variables of the critic step
CriticTrainableVarsWithTarget == {"qf1", "qf2", "qf1_target"}

\* trainable_var = qf1.trainable_variables + qf2.trainable_variables
CriticTrainableVars == {"qf1", "qf2"}

\* faulty variant: the targets are soft-updated before the critic step
TrainStepsSoftFirst(auto_alpha) ==
    IF auto_alpha
    THEN <<"soft", "critic", "actor", "alpha", "assign">>
    ELSE <<"soft", "critic", "actor">>

\* the updates of _train_body in program order
TrainSteps(auto_alpha) ==
    IF auto_alpha
    THEN <<"critic", "soft", "actor", "alpha", "assign">>
    ELSE <<"critic", "soft", "actor">>

AtStep(name) ==
    /\ pc = "train"
    /\ call.step <= Len(TrainSteps(self.auto_alpha))
    /\ TrainSteps(self.auto_alpha)[call.step] = name

Advance(name) ==
    call' = [call EXCEPT !.step = @ + 1, !.applied = Append(@, name)]

\* q_grad = tape.gradient(td_loss_q, trainable_var);
\* qf_optimizer.apply_gradients(zip(q_grad, trainable_var))
ApplyCritic(ag, c) ==
    [n \in DOMAIN ag |->
        IF n \in CriticTrainableVars
        THEN AdamStep(ag[n], TdGrad(c.pre[n], c, c.target_q), Lr)
        ELSE IF n = "qf_optimizer" THEN AdamTick(ag[n]) ELSE ag[n]]

\* faulty variant: the arguments swapped as in a source <- target call
SoftUpdateReversed(ag) ==
    [ag EXCEPT
        !.qf1 = UpdateTargetVariables(ag.qf1, ag.qf1_target, ag.tau),
        !.qf2 = UpdateTargetVariables(ag.qf2, ag.qf2_target, ag.tau)]

\* the two update_target_variables calls with tau = self.tau
SoftUpdate(ag) ==
    [ag EXCEPT
        !.qf1_target = UpdateTargetVariables(ag.qf1_target, ag.qf1, ag.tau),
        !.qf2_target = UpdateTargetVariables(ag.qf2_target, ag.qf2, ag.tau)]

\* actor_optimizer.apply_gradients(zip(actor_grad, actor.trainable_variables))
ApplyActor(ag, c) ==
    [ag EXCEPT !.actor = AdamStep(@, ActorGrad(c.pre, c), Lr),
               !.actor_optimizer = AdamTick(@)]

\* alpha_optimizer.apply_gradients(zip(alpha_grad, [log_alpha]))
ApplyAlpha(ag, c) ==
    [ag EXCEPT !.log_alpha = AdamStep(@, AlphaGrad(c.pre, c), 1),
               !.alpha_optimizer = <<AdamTick(@[1])>>]

\* faulty variant: alpha is not derived again after the log_alpha step
AssignAlphaVarSkipped(ag) == ag

\* alpha.assign(tf.exp(log_alpha))
AssignAlphaVar(ag) == [ag EXCEPT !.alpha = Exp(ag.log_alpha[1])]

\* weights = np.ones_like(rewards) when weights is None
DefaultWeights(w) == IF w = <<>> THEN [i \in Idx |-> 1] ELSE w

\* SAC.train up to the end of the tape block of _train_body
Train ==
    /\ pc = "idle"
    /\ nTrain < MaxTrain
    /\ nTrain' = nTrain + 1
    /\ UNCHANGED <<self, ctor>>
    /\ \E states \in SeqsOf(ObsVals), actions \in SeqsOf(ActVals),
          next_states \in SeqsOf(ObsVals), rewards \in RewardArgs,
          dones \in DoneArgs, w \in WeightArgs,
          rrank \in Ranks, drank \in Ranks :
          LET args == [method |-> "train", pre |-> self,
                       states |-> states, actions |-> actions,
                       next_states |-> next_states, rewards |-> rewards,
                       dones |-> dones, weights |-> DefaultWeights(w),
                       rrank |-> rrank, drank |-> drank]
          IN  IF ~ShapeAsserts(drank, rrank)
              THEN /\ call' = args
                   /\ ret' = [kind |-> "AssertionError"]
                   /\ pc' = "done"
              ELSE IF ~SqueezeOk(drank, rrank)
              THEN /\ call' = args
                   /\ ret' = [kind |-> "ValueError"]
                   /\ pc' = "done"
              ELSE \E next_samp \in ActorDraws, samp \in ActorDraws :
                      LET c == args @@ [next_samp |-> next_samp, samp |-> samp]
                      IN  /\ call' = c @@ TapeBlock(self, c)
                                       @@ [step |-> 1, applied |-> <<>>]
                          /\ ret' = NoRet
                          /\ pc' = "train"

ApplyCriticGradients ==
    /\ AtStep("critic")
    /\ self' = ApplyCritic(self, call)
    /\ Advance("critic")
    /\ UNCHANGED <<pc, ret, ctor, nTrain>>

SoftUpdateTargets ==
    /\ AtStep("soft")
    /\ self' = SoftUpdate(self)
    /\ Advance("soft")
    /\ UNCHANGED <<pc, ret, ctor, nTrain>>

ApplyActorGradients ==
    /\ AtStep("actor")
    /\ self' = ApplyActor(self, call)
    /\ Advance("actor")
    /\ UNCHANGED <<pc, ret, ctor, nTrain>>

ApplyAlphaGradients ==
    /\ AtStep("alpha")
    /\ self' = ApplyAlpha(self, call)
    /\ Advance("alpha")
    /\ UNCHANGED <<pc, ret, ctor, nTrain>>

AssignAlpha ==
    /\ AtStep("assign")
    /\ self' = AssignAlphaVar(self)
    /\ Advance("assign")
    /\ UNCHANGED <<pc, ret, ctor, nTrain>>

\* the return of _train_body, the summaries of train, return td_errors
TrainReturn ==
    /\ pc = "train"
    /\ call.step > Len(TrainSteps(self.auto_alpha))
    /\ ret' = [kind |-> "ok", value |-> call.target_q]
    /\ pc' = "done"
    /\ UNCHANGED <<self, call, ctor, nTrain>>

----------------------------------------------------------------------------
\* SAC.compute_td_error and _compute_td_error_body

\* self.vf_target(next_states): a state-value network, linear like the critics
VfTarget(w, s) == w[1] * s + w[2]

ComputeTdError ==
    /\ pc = "idle"
    /\ \E s \in ObsVals, a \in ActVals, ns \in ObsVals,
          rewards \in RewardArgs, dones \in DoneArgs :
          LET c == [method |-> "compute_td_error", pre |-> self,
                    states |-> [i \in Idx |-> s], actions |-> [i \in Idx |-> a],
                    next_states |-> [i \in Idx |-> ns],
                    rewards |-> rewards, dones |-> dones]
          IN  /\ call' = c
              /\ ret' =
                    IF "vf_target" \notin Attributes(self)
                    THEN [kind |-> "AttributeError"]
                    ELSE [kind |-> "ok",
                          value |-> [i \in Idx |->
                              (rewards[i] * ParamOne * Discount[2]
                               + NotDones(c.dones)[i] * self.discount[1]
                                    * VfTarget(self.vf_target, ns))
                              - CriticQ(self.qf1, s, a) * Discount[2]]]
    /\ pc' = "done"
    /\ UNCHANGED <<self, ctor, nTrain>>

Next ==
    \/ SACInit
    \/ Resume
    \/ GetAction
    \/ GetLogp
    \/ Train
    \/ ApplyCriticGradients
    \/ SoftUpdateTargets
    \/ ApplyActorGradients
    \/ ApplyAlphaGradients
    \/ AssignAlpha
    \/ TrainReturn
    \/ ComputeTdError

Spec == Init /\ [][Next]_vars

\* every soft update of a run divides exactly
ExactArithmetic ==
    pc \in {"idle", "train", "done"} =>
        /\ \A j \in 1..3 : self.qf1[j] % ParamOne = 0 /\ self.qf2[j] % ParamOne = 0
        /\ \A j \in 1..3 :
              /\ (self.qf1_target[j] * Pow(TauDen, nTrain)) % ParamOne = 0
              /\ (self.qf2_target[j] * Pow(TauDen, nTrain)) % ParamOne = 0
----------------------------------------------------------------------------
\* Vocabulary of the properties.

InTrain == pc \in {"train", "done"} /\ call.method = "train" /\ "step" \in DOMAIN call
TrainDone == pc = "done" /\ call.method = "train" /\ ret.kind = "ok"
Built == pc # "new"
Has(name) == \E k \in DOMAIN call.applied : call.applied[k] = name
IsPrefix(p, q) == Len(p) <= Len(q) /\ \A k \in DOMAIN p : p[k] = q[k]
Dist2(u, v) == SumSeq([j \in DOMAIN u |-> (u[j] - v[j]) * (u[j] - v[j])])
\* target = tau * source + (1 - tau) * old, cross-multiplied
IsMix(target, source, old, taun) ==
    \A j \in DOMAIN target :
        TauDen * target[j] = taun * source[j] + (TauDen - taun) * old[j]
\* the step a transition out of the current state takes
Cur ==
    IF pc = "train" /\ call.step <= Len(TrainSteps(self.auto_alpha))
    THEN TrainSteps(self.auto_alpha)[call.step]
    ELSE pc
ChangesOnly(names) == \A n \in DOMAIN self : self'[n] # self[n] => n \in names

\* the agent after the first k updates of a training step entered in state ag
RECURSIVE RunSteps(_, _, _)
RunSteps(ag, c, k) ==
    IF k = 0 THEN ag
    ELSE LET before == RunSteps(ag, c, k - 1)
             name == TrainSteps(ag.auto_alpha)[k]
         IN  CASE name = "critic" -> ApplyCritic(before, c)
               [] name = "soft" -> SoftUpdate(before)
               [] name = "actor" -> ApplyActor(before, c)
               [] name = "alpha" -> ApplyAlpha(before, c)
               [] name = "assign" -> AssignAlphaVar(before)

----------------------------------------------------------------------------
\* C1: in every train step target_q is computed from the target critics as
\* they were at entry, the critic gradient step comes first, then the soft
\* update of both targets with the configured tau from the already updated
\* live critics, then the actor step, then (auto-tuning) the log_alpha step
\* and last the alpha assignment; the soft update never precedes the critic
\* step.
C1_SoftUpdateAfterCriticStep ==
    InTrain =>
        LET pre == call.pre IN
        /\ IsPrefix(call.applied, <<"critic", "soft", "actor", "alpha", "assign">>)
        /\ call.target_q = TargetQ(pre, call)
        /\ Has("critic") <=> self.qf_optimizer.iterations = pre.qf_optimizer.iterations + 1
        /\ ~Has("critic") => self.qf1 = pre.qf1 /\ self.qf2 = pre.qf2
        /\ ~Has("soft") => /\ self.qf1_target = pre.qf1_target
                           /\ self.qf2_target = pre.qf2_target
        /\ Has("soft") =>
              /\ Has("critic")
              /\ self.qf1 = AdamStep(pre.qf1, TdGrad(pre.qf1, call, call.target_q), Lr)
              /\ self.qf2 = AdamStep(pre.qf2, TdGrad(pre.qf2, call, call.target_q), Lr)
              /\ IsMix(self.qf1_target, self.qf1, pre.qf1_target, self.tau)
              /\ IsMix(self.qf2_target, self.qf2, pre.qf2_target, self.tau)
        /\ Has("actor") <=>
              self.actor_optimizer.iterations = pre.actor_optimizer.iterations + 1
        /\ Has("actor") => Has("soft")
        /\ ~Has("alpha") => self.log_alpha = pre.log_alpha
        /\ Has("alpha") => Has("actor")
        /\ ~Has("assign") => self.alpha = pre.alpha
        /\ Has("assign") => Has("alpha") /\ self.alpha = Exp(self.log_alpha[1])
        /\ pc = "done" => call.applied = TrainSteps(self.auto_alpha)

\* a second train call has run to its end, auto-tuning, and moved both live
\* critics and both targets
C1_Witness ==
    /\ TrainDone /\ nTrain = 2 /\ self.auto_alpha
    /\ self.qf1 # call.pre.qf1 /\ self.qf2 # call.pre.qf2
    /\ self.qf1_target # call.pre.qf1_target
    /\ self.qf2_target # call.pre.qf2_target
    /\ self.tau < TauDen

\* C2: after SAC.__init__ each target critic equals its live critic and the
\* live critics still hold the values they were created with.
C2_InitCopiesLiveIntoTarget ==
    (pc = "done" /\ call.method = "__init__") =>
        /\ self.qf1_target = self.qf1
        /\ self.qf2_target = self.qf2
        /\ self.qf1 = call.created.qf1
        /\ self.qf2 = call.created.qf2

\* C3: compute_td_error on a constructed agent completes with one TD error
\* per batch element and changes no state.
C3_ComputeTdErrorReturns ==
    (pc = "done" /\ call.method = "compute_td_error") =>
        /\ ret.kind = "ok"
        /\ self = call.pre

\* the scenario of C4: the first train call of a fresh agent, tau strictly
\* between 0 and 1, rewards all zero, dones all zero
FirstTrainDone ==
    /\ TrainDone /\ nTrain = 1
    /\ self.tau < TauDen
    /\ \A i \in Idx : call.rewards[i] = 0 /\ call.dones[i] = 0

\* C4 as stated: after that call each target is strictly closer in L2 norm
\* to its live critic than it was before the call.
C4_TargetsStrictlyCloser ==
    FirstTrainDone =>
        /\ Dist2(self.qf1_target, self.qf1) < Dist2(call.pre.qf1_target, call.pre.qf1)
        /\ Dist2(self.qf2_target, self.qf2) < Dist2(call.pre.qf2_target, call.pre.qf2)

\* C4 amended: before the call each target equals its live critic (distance
\* zero); after it the distance of each target to its live critic is
\* (1 - tau) times the distance from the target before the call to the live
\* critic after the call, so it is strictly smaller than that distance
\* whenever the gradient step moved the live critic.
C4_TargetsCloserToUpdatedCritic ==
    FirstTrainDone =>
        LET pre == call.pre
            Closer(target, live, old) ==
                /\ TauDen * TauDen * Dist2(target, live)
                      = (TauDen - self.tau) * (TauDen - self.tau) * Dist2(old, live)
                /\ Dist2(target, live) <= Dist2(old, live)
                /\ Dist2(old, live) > 0 => Dist2(target, live) < Dist2(old, live)
        IN  /\ Dist2(pre.qf1_target, pre.qf1) = 0
            /\ Dist2(pre.qf2_target, pre.qf2) = 0
            /\ Closer(self.qf1_target, self.qf1, pre.qf1_target)
            /\ Closer(self.qf2_target, self.qf2, pre.qf2_target)

\* the scenario of C4 with both live critics moved by the gradient step
C4_Witness ==
    /\ FirstTrainDone
    /\ self.qf1 # call.pre.qf1 /\ self.qf2 # call.pre.qf2
    /\ Dist2(self.qf1_target, self.qf1) > 0

\* C5: for every batch element with dones = 1 the regression target equals
\* the reward exactly, and for a batch whose dones are all 1 train returns
\* the squeezed rewards.
C5_TerminalMasking ==
    InTrain =>
        /\ \A i \in Idx :
              call.dones[i] = 1 => call.target_q[i] = call.rewards[i] * QUnit
        /\ (pc = "done" /\ \A i \in Idx : call.dones[i] = 1) =>
              ret.value = [i \in Idx |-> call.rewards[i] * QUnit]

\* an all-terminal batch with non-zero rewards was trained on while the
\* bootstrap term of every element was non-zero
C5_Witness ==
    /\ TrainDone
    /\ \A i \in Idx : /\ call.dones[i] = 1
                      /\ call.rewards[i] > 0
                      /\ SoftNextQ(call.pre, call)[i] # 0

\* C6: a train call whose rewards or dones are not rank 2 fails with an
\* assertion failure and leaves the agent as it was.
C6_BadRankFailsUnchanged ==
    (call.method = "train" /\ (call.rrank # 2 \/ call.drank # 2)) =>
        /\ pc = "done"
        /\ ret.kind = "AssertionError"
        /\ self = call.pre

\* rank-3 rewards were rejected by an agent that had trained before
C6_Witness ==
    /\ pc = "done" /\ call.method = "train" /\ nTrain = 2
    /\ call.rrank = 3 /\ call.drank = 2
    /\ ret.kind = "AssertionError"
    /\ self.qf_optimizer.iterations = 1

\* C7: with auto_alpha disabled alpha is the constructor's argument after any
\* calls, and there is no log_alpha variable and no alpha optimizer.
C7_FixedAlphaUnchanged ==
    (Built /\ ~ctor.auto_alpha) =>
        /\ self.alpha = ctor.alpha
        /\ self.log_alpha = <<>>
        /\ self.alpha_optimizer = <<>>
        /\ InTrain => ~Has("alpha") /\ ~Has("assign")

\* a second train call has run to its end with auto_alpha disabled
C7_Witness ==
    /\ TrainDone /\ nTrain = 2 /\ ~ctor.auto_alpha
    /\ self.actor_optimizer.iterations = 2
    /\ self.actor # call.pre.actor

\* C8: the targets are written only by the soft update; the critic step
\* changes only qf1, qf2 and their optimizer, the actor step only the actor
\* and its optimizer, the alpha step only log_alpha and its optimizer;
\* get_action, get_logp and the returns change nothing.
C8_TargetsWrittenOnlyBySoftUpdate ==
    [][Built =>
        /\ Cur = "critic" => ChangesOnly({"qf1", "qf2", "qf_optimizer"})
        /\ Cur = "soft" => ChangesOnly({"qf1_target", "qf2_target"})
        /\ Cur = "actor" => ChangesOnly({"actor", "actor_optimizer"})
        /\ Cur = "alpha" => ChangesOnly({"log_alpha", "alpha_optimizer"})
        /\ Cur = "assign" => ChangesOnly({"alpha"})
        /\ Cur \in {"idle", "train", "done"} => ChangesOnly({})]_vars

\* a train call moved the live critics, the targets and the actor
C8_Witness ==
    /\ TrainDone
    /\ self.qf1 # call.pre.qf1
    /\ self.qf1_target # call.pre.qf1_target
    /\ self.actor # call.pre.actor

\* C9: with auto_alpha enabled alpha = exp(log_alpha) after construction
\* (log_alpha = 0, alpha = 1) and after every completed train call; the
\* losses of a step use the alpha from before the step, and alpha is derived
\* again only after the log_alpha step.
C9_AlphaIsExpLogAlpha ==
    (Built /\ ctor.auto_alpha) =>
        /\ pc \in {"idle", "done"} => self.alpha = Exp(self.log_alpha[1])
        /\ (pc = "done" /\ call.method = "__init__") =>
              self.log_alpha = <<0>> /\ self.alpha = AlphaOne
        /\ InTrain =>
              /\ call.target_q = TargetQ([self EXCEPT !.alpha = call.pre.alpha,
                                          !.qf1_target = call.pre.qf1_target,
                                          !.qf2_target = call.pre.qf2_target], call)
              /\ call.policy_loss = PolicyLoss(call.pre, call)
              /\ ~Has("assign") => self.alpha = call.pre.alpha
              /\ Has("alpha") =>
                    self.log_alpha = AdamStep(call.pre.log_alpha,
                                              AlphaGrad(call.pre, call), 1)
              /\ Has("assign") => self.alpha = Exp(self.log_alpha[1])

\* a second auto-tuning train call has run to its end and changed alpha
C9_Witness ==
    /\ TrainDone /\ nTrain = 2 /\ ctor.auto_alpha
    /\ self.log_alpha # call.pre.log_alpha
    /\ self.alpha # call.pre.alpha
    /\ call.pre.alpha # AlphaOne

\* C10: the weights have no influence: the step run with any other weights
\* from the same agent state, batch and draws computes the same losses and
\* target, leaves the same parameters and returns the same value.
C10_WeightsHaveNoInfluence ==
    TrainDone =>
        \A w \in WeightArgs :
            LET other == [call EXCEPT !.weights = DefaultWeights(w)]
                tape == TapeBlock(call.pre, other)
            IN  /\ \A f \in DOMAIN tape : call[f] = tape[f]
                /\ self = RunSteps(call.pre, [n \in DOMAIN other |->
                                        IF n \in DOMAIN tape THEN tape[n]
                                        ELSE other[n]], Len(call.applied))
                /\ ret.value = tape.target_q

\* a train call given explicit weights has run to its end and moved a critic
C10_Witness ==
    /\ TrainDone /\ nTrain = 2
    /\ call.weights # [i \in Idx |-> 1]
    /\ self.qf1 # call.pre.qf1
====
